---- MODULE Spec2Model ----
(***************************************************************************)
(* Model of the bargraph stream output (modules/stream_out/bargraph.c) and *)
(* of the audio bar graph overlay filter (modules/spu/audiobargraph_v.c).  *)
(*                                                                         *)
(* The stream output owns a reference counted registry of per-stream       *)
(* records (shared_bargraph_data_t); every decoded audio block pushes a    *)
(* peak snapshot on its stream's fifo and publishes the registry pointer   *)
(* through the libvlc variable "audiobargraph_v-i_values".  The overlay    *)
(* filter receives that pointer in BarGraphCallback and draws the registry *)
(* in FilterSub / Draw.                                                    *)
(*                                                                         *)
(* Six specifications share the variables:                                 *)
(*   Spec      one stream output and one filter, both open, with one       *)
(*             thread per stream, a render thread and a configuration      *)
(*             thread; every lock acquisition is a step of its own.        *)
(*   SpecLife  several stream outputs and filters opening and closing;     *)
(*             every handler is one atomic action.                         *)
(*   SpecFifo  one stream receiving a long run of peak snapshots.          *)
(*   SpecMeter the arithmetic of one channel: peak, iec_scale, bar height. *)
(*   SpecConfig a filter alone, opened, reconfigured and closed.           *)
(*   SpecSout  the stream output alone, with streams of every category     *)
(*             and blocks of every encoding.                               *)
(***************************************************************************)
EXTENDS Integers, Sequences, FiniteSets, TLC

(***************************************************************************)
(* Bounds of the model.                                                    *)
(***************************************************************************)
\* Width of a C int in the model (the real width is 32).
IntBits == 4
\* Stream contexts (sout_stream_id_sys_t) that may ever be added.
NumStreams == 2
\* decoder_queue_audio calls per stream in Spec and SpecLife.
MaxPush == 2
\* Stream output instances in SpecLife.
NumSout == 2
\* Overlay filter instances in SpecLife.
NumFilt == 1
\* decoder_queue_audio calls on the stream of SpecFifo: FifoLimit + QueueRun.
QueueRun == 3
\* Render ticks of the render thread in Spec.
MaxTicks == 2

(***************************************************************************)
(* Program constants.                                                      *)
(***************************************************************************)
\* bargraph.c:382, "vlc_fifo_GetCount(data->p_fifo) > 100".
FifoLimit == 100

INT_MIN == -(2 ^ (IntBits - 1))
INT_MAX == (2 ^ (IntBits - 1)) - 1

\* A C int computation reduced to the int width (two's complement).
WrapInt(x) == ((x - INT_MIN) % (2 ^ IntBits)) + INT_MIN

NULL == 0
Souts == 1 .. NumSout
Filters == 1 .. NumFilt
Handles == 1 .. NumStreams

\* The stream output and the filter of Spec and SpecFifo: the first instances.
TheSout == CHOOSE s \in Souts : \A t \in Souts : s <= t
TheFilter == CHOOSE f \in Filters : \A g \in Filters : f <= g

\* Peak levels of a snapshot (channels_peaks), 0 is silence.
PeakValues == {0, 1}

NoOwner == <<>>
Producer(h) == <<"stream", h>>
Renderer(f) == <<"render", f>>
Config(f) == <<"config", f>>

\* The threads of Spec: one per stream context, the render thread and the
\* configuration thread of the filter.
Threads == {Producer(h) : h \in Handles} \cup {Renderer(TheFilter), Config(TheFilter)}

VARIABLES
    sout,               \* sout[s]: "none", "open", "closed" (p_sys of instance s)
    regAlloc,           \* regAlloc[r]: "none", "live", "freed" (registry of instance r)
    i_refcount,         \* shared_bargraph_data_t.i_refcount
    i_count_channels,   \* shared_bargraph_data_t.i_count_channels
    p_streams,          \* shared_bargraph_data_t.p_streams (i_streams is its length)
    mutex,              \* shared_bargraph_data_t.mutex: its owner
    rec,                \* rec[h]: bargraph_data_t of stream context h
    fifo,               \* fifo[h]: bargraph_data_t.p_fifo, oldest block first
    fifoLock,           \* the fifo's lock: its owner
    nPushed,            \* decoder_queue_audio calls made on h
    dropped,            \* "Drop peak data" messages logged for h
    var_i_values,       \* libvlc variable audiobargraph_v-i_values
    filt,               \* filt[f]: "none", "open"
    p_data,             \* BarGraph_t.p_data
    b_spu_update,       \* filter_sys_t.b_spu_update
    lock,               \* filter_sys_t.lock: its owner
    cfg,                \* barWidth, barHeight, i_alpha, alarm of BarGraph_t
    p_pic,              \* BarGraph_t.p_pic: NULL or the picture
    pictures,           \* pictures[id]: the picture_t that picture_New returned as id
    pc,                 \* pc[t]: position of thread t
    blk,                \* blk[h]: block_out of the decoder_queue_audio call in progress
    cbArg,              \* cbArg[t]: variable and value of the callback thread t runs
    i_stream,           \* i_stream[f]: loop index of Draw / FilterSub
    ticks,              \* ticks[f]: FilterSub calls made
    spu,                \* spu[f]: what the last FilterSub returned
    fault,              \* "none", or the fatal condition the process hit
    block_in,           \* decoder_queue_audio: codec and samples of one channel of block_in
    f_value,            \* decoder_queue_audio: f_value of that channel
    draw,               \* Draw: peak, barHeight, dB, iec_scale(dB) and db of one channel
    add_ret             \* Add: the es format of the last call and the handle it returned

regVars == <<regAlloc, i_refcount, i_count_channels, p_streams, mutex>>
recVars == <<rec, fifo, fifoLock, nPushed, dropped>>
soutVars == <<sout, var_i_values>>
filtVars == <<filt, p_data, b_spu_update, lock, cfg, p_pic, pictures>>
thrVars == <<pc, blk, cbArg>>
rendVars == <<i_stream, ticks, spu>>
meterVars == <<block_in, f_value, draw>>
vars == <<regVars, recVars, soutVars, filtVars, thrVars, rendVars, fault, meterVars,
          add_ret>>

(***************************************************************************)
(* The registry (bargraph.c).                                              *)
(***************************************************************************)
\* A record that is not allocated.
NoRec == [state |-> "none", i_stream_id |-> 0, i_nb_channels |-> 0, p_sys |-> NULL]

\* The es formats Add may be given: an audio stream with its id and channels.
EsFormats ==
    {[i_id |-> INT_MIN, i_channels |-> 1], [i_id |-> 0, i_channels |-> 2],
     [i_id |-> 1, i_channels |-> 1]}

\* bargraph_data_cmp: the int subtraction of the two stream ids.  A difference
\* outside the int range is reduced to the int width, as every build of the
\* subtraction does.
bargraph_data_cmp(R, a, b) == WrapInt(R[a].i_stream_id - R[b].i_stream_id)

\* The permutations of sequence s.
RECURSIVE Perms(_)
Perms(s) ==
    IF s = <<>> THEN {<<>>}
    ELSE UNION {{<<s[i]>> \o t :
                    t \in Perms(SubSeq(s, 1, i - 1) \o SubSeq(s, i + 1, Len(s)))} :
                i \in 1 .. Len(s)}

\* Sequence s is ordered by the comparator (R is the table of the records).
OrderedByCmp(R, s) ==
    \A i, j \in 1 .. Len(s) : i < j => bargraph_data_cmp(R, s[i], s[j]) <= 0

\* shared_bargraph_data_sort_streams: what qsort may leave in p_streams.  With a
\* comparator that orders the records, an arrangement the comparator accepts;
\* with a comparator that is no order on them, qsort's result is unspecified.
shared_bargraph_data_sort_streams(R, s) ==
    LET ordered == {t \in Perms(s) : OrderedByCmp(R, t)}
    IN  IF ordered # {} THEN ordered ELSE Perms(s)

\* A TAB_REMOVE that leaves the table as it is.
TAB_REMOVE_keep(s, h) == s

\* A picture_Release that keeps the picture allocated.
picture_Release_none(P, id) == P

\* TAB_APPEND and TAB_REMOVE (the first entry equal to h, if any).
TAB_APPEND(s, h) == Append(s, h)
TAB_REMOVE(s, h) ==
    IF \E i \in 1 .. Len(s) : s[i] = h
    THEN LET i == CHOOSE k \in 1 .. Len(s) : s[k] = h /\ \A m \in 1 .. k - 1 : s[m] # h
         IN  SubSeq(s, 1, i - 1) \o SubSeq(s, i + 1, Len(s))
    ELSE s

\* A del_stream that counts one channel for the stream it removes.
del_stream_count_unit(R, count, h) == count - 1

\* add_stream, bargraph.c:239 and del_stream, bargraph.c:249.
add_stream_count(R, count, h) == count + R[h].i_nb_channels
del_stream_count(R, count, h) == count - R[h].i_nb_channels

\* Sum of i_nb_channels over the records of sequence s.
RECURSIVE SumChannels(_)
SumChannels(s) ==
    IF s = <<>> THEN 0 ELSE rec[Head(s)].i_nb_channels + SumChannels(Tail(s))

\* A fifo that, when it drops, drops its newest block in place of its oldest.
FifoQueue_newest(q, b) ==
    Append(IF Len(q) > FifoLimit THEN SubSeq(q, 1, Len(q) - 1) ELSE q, b)

\* decoder_queue_audio, bargraph.c:382-388: the fifo after the block is queued.
FifoDrops(q) == Len(q) > FifoLimit
FifoQueue(q, b) == Append(IF FifoDrops(q) THEN Tail(q) ELSE q, b)

\* shared_bargraph_data_ref / shared_bargraph_data_unref: the assertion
\* i_refcount >= 1 fails, or the registry is no longer allocated.
RefDead(r) == regAlloc[r] # "live" \/ i_refcount[r] < 1
ref_count(n) == n + 1
unref_count(n) == n - 1

(***************************************************************************)
(* The overlay filter (audiobargraph_v.c).                                 *)
(***************************************************************************)
\* VLC_CLIP without its bounds.
VLC_CLIP_none(v, lo, hi) == v
VLC_CLIP(v, lo, hi) == IF v < lo THEN lo ELSE IF v > hi THEN hi ELSE v

\* The configuration after OpenSub with the module's default options.
DefaultCfg ==
    [i_pos |-> -1, i_pos_x |-> 0, i_pos_y |-> 0, i_alpha |-> VLC_CLIP(255, 0, 255),
     alarm |-> FALSE, barWidth |-> 30, barHeight |-> 300]

\* A BarGraphCallback that stores the transparency as it is given.
BarGraphCallback_cfg_raw(c, var, val) ==
    IF var = "transparency" THEN [c EXCEPT !.i_alpha = val] ELSE c

\* BarGraphCallback, audiobargraph_v.c:363: its only return.
VLC_SUCCESS == 0
BarGraphCallback_ret(var, val) == VLC_SUCCESS

\* BarGraphCallback, audiobargraph_v.c:337-359, on the configuration fields.
BarGraphCallback_cfg(c, var, val) ==
    CASE var = "x" -> [c EXCEPT !.i_pos_x = val]
      [] var = "y" -> [c EXCEPT !.i_pos_y = val]
      [] var = "position" -> [c EXCEPT !.i_pos = val]
      [] var = "transparency" -> [c EXCEPT !.i_alpha = VLC_CLIP(val, 0, 255)]
      [] var = "alarm" -> [c EXCEPT !.alarm = (val # 0)]
      [] var = "barWidth" -> [c EXCEPT !.barWidth = val]
      [] var = "barHeight" -> [c EXCEPT !.barHeight = val]
      [] OTHER -> c

\* BarGraphCallback, audiobargraph_v.c:347: the branch that retains the registry.
CallbackRetains(old, new) == old = NULL /\ new # NULL

\* BarGraphCallback, audiobargraph_v.c:352 and 360.
CallbackData(old, var, val) == IF var = "i_values" THEN val ELSE old
CallbackDirty(flag) == TRUE

\* No picture, and the picture picture_New returns.
NoBars == [h \in Handles |-> -1]
NoPic == [alloc |-> FALSE, id |-> 0, w |-> 0, h |-> 0, bars |-> NoBars]

\* picture_New and picture_Release on the pictures of the process: a picture_t
\* with one reference is allocated for filter f, and the reference is dropped.
picture_New(P, f) == Append(P, [state |-> "live", owner |-> f])
picture_Release(P, id) == [P EXCEPT ![id].state = "released"]

\* A canvas width without the separator column that follows each stream.
DrawWidth_nosep(s, barWidth) == barWidth + SumChannels(s) * (5 + barWidth)

\* Draw, audiobargraph_v.c:263-268: the canvas size.
RECURSIVE DrawWidth(_, _)
DrawWidth(s, barWidth) ==
    IF s = <<>> THEN barWidth
    ELSE DrawWidth(SubSeq(s, 1, Len(s) - 1), barWidth)
         + (rec[s[Len(s)]].i_nb_channels + 1) * (5 + barWidth)
DrawHeight(barHeight) == barHeight + 30

\* Draw, audiobargraph_v.c:318 and 320: what the cursor pi advances by after a
\* channel and after a stream.
DrawChannelAdvance(barWidth) == 5 + barWidth
DrawStreamAdvance(barWidth) == 5 + barWidth

\* DrawBargraph, audiobargraph_v.c:381-391: the size it reports.
RECURSIVE DrawBargraphWidth(_, _)
DrawBargraphWidth(s, i_barWidth) ==
    IF s = <<>> THEN i_barWidth
    ELSE DrawBargraphWidth(SubSeq(s, 1, Len(s) - 1), i_barWidth)
         + rec[s[Len(s)]].i_nb_channels * (i_barWidth + 5) + i_barWidth
DrawBargraphHeight(i_height) == i_height

\* DrawBargraph, audiobargraph_v.c:461 and 466: what the cursor i_x advances by
\* after a channel and after a stream.
DrawBargraphChannelAdvance(i_barWidth) == i_barWidth + 5
DrawBargraphStreamAdvance(i_barWidth) == i_barWidth

\* Draw, audiobargraph_v.c:298: the filter reads channels_peaks of its own
\* bargraph_data_t (audiobargraph_v.c:106-111), a field the stream output's
\* layout of the record (bargraph.c:144-149) does not have: the bytes read are
\* those of p_fifo and of what follows the record, whatever they hold.
DrawPeakRead(h) == PeakValues

(***************************************************************************)
(* Initial states.                                                         *)
(***************************************************************************)
NoBlk == [peak |-> 0, pts |-> 0]

\* A float: a number (v, in the unit of the quantity), minus infinity or NaN.
Num(v) == [k |-> "num", v |-> v]
MinusInf == [k |-> "ninf", v |-> 0]
NaN == [k |-> "nan", v |-> 0]

\* No block decoded yet, no channel drawn yet.
NoBlockIn == [i_codec |-> "none", samples |-> <<>>]
NoDraw == [peak |-> Num(0), barHeight |-> 0, dB |-> Num(0), scale |-> 0, db |-> 0]
NoArg == [var |-> "", val |-> 0]

\* No Add call made yet.
NoAdd == [i_cat |-> "UNKNOWN_ES", decoder |-> FALSE, i_id |-> 0, i_channels |-> 0,
          id |-> NULL]

InitBase ==
    /\ i_count_channels = [r \in Souts |-> 0]
    /\ p_streams = [r \in Souts |-> <<>>]
    /\ mutex = [r \in Souts |-> NoOwner]
    /\ rec = [h \in Handles |-> NoRec]
    /\ fifo = [h \in Handles |-> <<>>]
    /\ fifoLock = [h \in Handles |-> NoOwner]
    /\ nPushed = [h \in Handles |-> 0]
    /\ dropped = [h \in Handles |-> 0]
    /\ var_i_values = NULL
    /\ p_data = [f \in Filters |-> NULL]
    /\ lock = [f \in Filters |-> NoOwner]
    /\ cfg = [f \in Filters |-> DefaultCfg]
    /\ p_pic = [f \in Filters |-> NoPic]
    /\ pictures = <<>>
    /\ block_in = NoBlockIn
    /\ f_value = 0
    /\ draw = NoDraw
    /\ add_ret = NoAdd
    /\ pc = [t \in Threads |-> "idle"]
    /\ blk = [h \in Handles |-> NoBlk]
    /\ cbArg = [t \in Threads |-> NoArg]
    /\ i_stream = [f \in Filters |-> 0]
    /\ ticks = [f \in Filters |-> 0]
    /\ spu = [f \in Filters |-> "none"]
    /\ fault = "none"

\* Spec starts when Open (bargraph.c:261-285) and OpenSub (audiobargraph_v.c:
\* 600-647) have returned: the registry holds one reference and no stream, the
\* variable holds NULL, and the two callbacks OpenSub triggers have run.
Init ==
    /\ InitBase
    /\ sout = [s \in Souts |-> IF s = TheSout THEN "open" ELSE "none"]
    /\ regAlloc = [r \in Souts |-> IF r = TheSout THEN "live" ELSE "none"]
    /\ i_refcount = [r \in Souts |-> IF r = TheSout THEN 1 ELSE 0]
    /\ filt = [f \in Filters |-> IF f = TheFilter THEN "open" ELSE "none"]
    /\ b_spu_update = [f \in Filters |-> f = TheFilter]

Goto(t, l) == pc' = [pc EXCEPT ![t] = l]

(***************************************************************************)
(* Spec, the stream threads: Add, decoder_queue_audio, Del.  A step runs   *)
(* from one lock operation to the next.                                    *)
(***************************************************************************)
\* The record add_stream allocates for es format fmt, bargraph.c:223-234.
NewRec(s, fmt) ==
    [state |-> "live", i_stream_id |-> fmt.i_id, i_nb_channels |-> fmt.i_channels,
     p_sys |-> s]

\* Add, bargraph.c:401-451 and add_stream, bargraph.c:221-236: the record is
\* allocated and filled, then the registry is locked.
AddLock(h) ==
    /\ pc[Producer(h)] = "idle" /\ rec[h].state = "none"
    /\ sout[TheSout] = "open"
    /\ mutex[TheSout] = NoOwner
    /\ \E fmt \in EsFormats : rec' = [rec EXCEPT ![h] = NewRec(TheSout, fmt)]
    /\ mutex' = [mutex EXCEPT ![TheSout] = Producer(h)]
    /\ Goto(Producer(h), "add_append")
    /\ UNCHANGED <<regAlloc, i_refcount, i_count_channels, p_streams, fifo, fifoLock,
                   nPushed, dropped, soutVars, filtVars, blk, cbArg, rendVars, fault>>

\* add_stream, bargraph.c:237-238.
AddAppend(h) ==
    /\ pc[Producer(h)] = "add_append"
    /\ \E sorted \in shared_bargraph_data_sort_streams(
                        rec, TAB_APPEND(p_streams[rec[h].p_sys], h)) :
          p_streams' = [p_streams EXCEPT ![rec[h].p_sys] = sorted]
    /\ Goto(Producer(h), "add_count")
    /\ UNCHANGED <<regAlloc, i_refcount, i_count_channels, mutex, recVars,
                   soutVars, filtVars, blk, cbArg, rendVars, fault>>

\* add_stream, bargraph.c:239-241; Add, bargraph.c:451-454.
AddCount(h) ==
    /\ pc[Producer(h)] = "add_count"
    /\ i_count_channels' = [i_count_channels EXCEPT
                              ![rec[h].p_sys] = add_stream_count(rec, @, h)]
    /\ mutex' = [mutex EXCEPT ![rec[h].p_sys] = NoOwner]
    /\ Goto(Producer(h), "ready")
    /\ UNCHANGED <<regAlloc, i_refcount, p_streams, recVars,
                   soutVars, filtVars, blk, cbArg, rendVars, fault>>

\* Del, bargraph.c:462-472 and del_stream, bargraph.c:246.
DelLock(h) ==
    /\ pc[Producer(h)] = "ready"
    /\ mutex[rec[h].p_sys] = NoOwner
    /\ mutex' = [mutex EXCEPT ![rec[h].p_sys] = Producer(h)]
    /\ Goto(Producer(h), "del_remove")
    /\ UNCHANGED <<regAlloc, i_refcount, i_count_channels, p_streams, recVars,
                   soutVars, filtVars, blk, cbArg, rendVars, fault>>

\* del_stream, bargraph.c:247-248.
DelRemove(h) ==
    /\ pc[Producer(h)] = "del_remove"
    /\ \E sorted \in shared_bargraph_data_sort_streams(
                        rec, TAB_REMOVE(p_streams[rec[h].p_sys], h)) :
          p_streams' = [p_streams EXCEPT ![rec[h].p_sys] = sorted]
    /\ Goto(Producer(h), "del_count")
    /\ UNCHANGED <<regAlloc, i_refcount, i_count_channels, mutex, recVars,
                   soutVars, filtVars, blk, cbArg, rendVars, fault>>

\* del_stream, bargraph.c:249-250.
DelCount(h) ==
    /\ pc[Producer(h)] = "del_count"
    /\ i_count_channels' = [i_count_channels EXCEPT
                              ![rec[h].p_sys] = del_stream_count(rec, @, h)]
    /\ mutex' = [mutex EXCEPT ![rec[h].p_sys] = NoOwner]
    /\ Goto(Producer(h), "del_free")
    /\ UNCHANGED <<regAlloc, i_refcount, p_streams, recVars,
                   soutVars, filtVars, blk, cbArg, rendVars, fault>>

\* del_stream, bargraph.c:251-254: the fifo and the record are freed.
DelFree(h) ==
    /\ pc[Producer(h)] = "del_free"
    /\ rec' = [rec EXCEPT ![h].state = "freed"]
    /\ fifo' = [fifo EXCEPT ![h] = <<>>]
    /\ Goto(Producer(h), "del_decoder")
    /\ UNCHANGED <<regVars, fifoLock, nPushed, dropped, soutVars, filtVars,
                   blk, cbArg, rendVars, fault>>

\* Del, bargraph.c:474-484: the decoder module is unloaded, the decoder and the
\* stream context are released.
DelDecoder(h) ==
    /\ pc[Producer(h)] = "del_decoder"
    /\ Goto(Producer(h), "done")
    /\ UNCHANGED <<regVars, recVars, soutVars, filtVars, blk, cbArg, rendVars, fault>>

\* id->p_decoder->p_module of stream context h is loaded: from module_need in
\* Add (bargraph.c:432-433) to module_unneed in Del (bargraph.c:475-476) the
\* decoder can call decoder_queue_audio.
p_module(h) == pc[Producer(h)] \notin {"idle", "done"}

\* The peaks decoder_queue_audio computes for the blocks of Spec: full scale.
SpecPeaks == {v \in PeakValues : \A u \in PeakValues : u <= v}

\* decoder_queue_audio, bargraph.c:313-374: the peaks of the block (f_value)
\* are computed, then the registry is locked.
DqLock(h) ==
    /\ pc[Producer(h)] = "ready"
    /\ nPushed[h] < MaxPush
    /\ mutex[rec[h].p_sys] = NoOwner
    /\ \E v \in SpecPeaks : blk' = [blk EXCEPT ![h] = [peak |-> v, pts |-> nPushed[h] + 1]]
    /\ nPushed' = [nPushed EXCEPT ![h] = @ + 1]
    /\ mutex' = [mutex EXCEPT ![rec[h].p_sys] = Producer(h)]
    /\ Goto(Producer(h), "dq_fifo_lock")
    /\ UNCHANGED <<regAlloc, i_refcount, i_count_channels, p_streams, rec, fifo,
                   fifoLock, dropped, soutVars, filtVars, cbArg, rendVars, fault>>

\* decoder_queue_audio, bargraph.c:376-380.
DqFifoLock(h) ==
    /\ pc[Producer(h)] = "dq_fifo_lock"
    /\ fifoLock[h] = NoOwner
    /\ fifoLock' = [fifoLock EXCEPT ![h] = Producer(h)]
    /\ Goto(Producer(h), "dq_queue")
    /\ UNCHANGED <<regVars, rec, fifo, nPushed, dropped, soutVars, filtVars,
                   blk, cbArg, rendVars, fault>>

\* A decoder_queue_audio that publishes the registry with its mutex held.
DqMutexAtPublish_held(t) == t

\* decoder_queue_audio, bargraph.c:390-391: the owner of the registry mutex
\* when thread t calls var_SetAddress.
DqMutexAtPublish(t) == NoOwner

\* decoder_queue_audio, bargraph.c:382-391: the block is queued, both locks are
\* released, var_SetAddress stores the registry pointer and calls
\* BarGraphCallback of the filter.
DqQueue(h) ==
    /\ pc[Producer(h)] = "dq_queue"
    /\ fifo' = [fifo EXCEPT ![h] = FifoQueue(@, blk[h])]
    /\ dropped' = [dropped EXCEPT ![h] = IF FifoDrops(fifo[h]) THEN @ + 1 ELSE @]
    /\ fifoLock' = [fifoLock EXCEPT ![h] = NoOwner]
    /\ mutex' = [mutex EXCEPT ![rec[h].p_sys] = DqMutexAtPublish(Producer(h))]
    /\ var_i_values' = rec[h].p_sys
    /\ blk' = [blk EXCEPT ![h] = NoBlk]
    /\ cbArg' = [cbArg EXCEPT ![Producer(h)] = [var |-> "i_values", val |-> rec[h].p_sys]]
    /\ Goto(Producer(h), "cb_lock")
    /\ UNCHANGED <<regAlloc, i_refcount, i_count_channels, p_streams, rec, nPushed,
                   sout, filtVars, rendVars, fault>>

(***************************************************************************)
(* Spec, BarGraphCallback run by thread t on the filter.                   *)
(***************************************************************************)
\* Where thread t continues after the callback: decoder_queue_audio returns
\* (bargraph.c:394-395), the configuration thread is done.
AfterCallback(t) == IF t[1] = "stream" THEN "ready" ELSE "idle"

\* BarGraphCallback, audiobargraph_v.c:336-363, when the registry is not
\* retained: lock, the field, the dirty flag, unlock.
CbPlain(t) ==
    /\ pc[t] = "cb_lock"
    /\ lock[TheFilter] = NoOwner
    /\ ~(cbArg[t].var = "i_values" /\ CallbackRetains(p_data[TheFilter], cbArg[t].val))
    /\ cfg' = [cfg EXCEPT ![TheFilter] = BarGraphCallback_cfg(@, cbArg[t].var, cbArg[t].val)]
    /\ p_data' = [p_data EXCEPT ![TheFilter] = CallbackData(@, cbArg[t].var, cbArg[t].val)]
    /\ b_spu_update' = [b_spu_update EXCEPT ![TheFilter] = CallbackDirty(@)]
    /\ cbArg' = [cbArg EXCEPT ![t] = NoArg]
    /\ Goto(t, AfterCallback(t))
    /\ UNCHANGED <<regVars, recVars, soutVars, filt, lock, p_pic, blk, rendVars, fault, pictures>>

\* BarGraphCallback, audiobargraph_v.c:336-349, when the registry is retained:
\* the filter is locked; unref of the NULL p_data returns at once.
CbLock(t) ==
    /\ pc[t] = "cb_lock"
    /\ lock[TheFilter] = NoOwner
    /\ cbArg[t].var = "i_values" /\ CallbackRetains(p_data[TheFilter], cbArg[t].val)
    /\ lock' = [lock EXCEPT ![TheFilter] = t]
    /\ Goto(t, "cb_ref")
    /\ UNCHANGED <<regVars, recVars, soutVars, filt, p_data, b_spu_update, cfg,
                   p_pic, blk, cbArg, rendVars, fault, pictures>>

\* BarGraphCallback, audiobargraph_v.c:350-363: shared_bargraph_data_ref
\* (audiobargraph_v.c:152-158) locks the registry, checks the count, increments
\* it and unlocks; then the pointer, the dirty flag, unlock.
CbRef(t) ==
    /\ pc[t] = "cb_ref"
    /\ mutex[cbArg[t].val] = NoOwner
    /\ IF RefDead(cbArg[t].val)
       THEN fault' = "assert" /\ UNCHANGED i_refcount
       ELSE /\ i_refcount' = [i_refcount EXCEPT ![cbArg[t].val] = ref_count(@)]
            /\ UNCHANGED fault
    /\ p_data' = [p_data EXCEPT ![TheFilter] = CallbackData(@, cbArg[t].var, cbArg[t].val)]
    /\ b_spu_update' = [b_spu_update EXCEPT ![TheFilter] = CallbackDirty(@)]
    /\ lock' = [lock EXCEPT ![TheFilter] = NoOwner]
    /\ cbArg' = [cbArg EXCEPT ![t] = NoArg]
    /\ Goto(t, AfterCallback(t))
    /\ UNCHANGED <<regAlloc, i_count_channels, p_streams, mutex, recVars,
                   soutVars, filt, cfg, p_pic, blk, rendVars, pictures>>

\* The configuration changes the configuration thread of Spec makes.
SpecCfgInputs == {[var |-> "barWidth", val |-> 10]}

\* A configuration variable of the filter is set: its callback starts.
CfgBegin(f) ==
    /\ pc[Config(f)] = "idle"
    /\ \E a \in SpecCfgInputs : cbArg' = [cbArg EXCEPT ![Config(f)] = a]
    /\ Goto(Config(f), "cb_lock")
    /\ UNCHANGED <<regVars, recVars, soutVars, filtVars, blk, rendVars, fault>>

(***************************************************************************)
(* Spec, the render thread: FilterSub and Draw.                            *)
(***************************************************************************)
\* A basic test that does not look at p_data.
FilterSubSkips_flag(f) == ~b_spu_update[f]

\* FilterSub, audiobargraph_v.c:499: the basic test.
FilterSubSkips(f) == ~b_spu_update[f] \/ p_data[f] = NULL

\* FilterSub, audiobargraph_v.c:497-502: lock, nothing to render, unlock.
FsSkip(f) ==
    /\ pc[Renderer(f)] = "idle"
    /\ ticks[f] < MaxTicks
    /\ lock[f] = NoOwner
    /\ FilterSubSkips(f)
    /\ ticks' = [ticks EXCEPT ![f] = @ + 1]
    /\ spu' = [spu EXCEPT ![f] = "none"]
    /\ UNCHANGED <<regVars, recVars, soutVars, filtVars, thrVars, i_stream, fault>>

\* FilterSub, audiobargraph_v.c:497-504 and Draw, audiobargraph_v.c:248-260:
\* lock, the test passes, the previous picture is released (b->p_pic keeps the
\* released pointer until Draw assigns it at audiobargraph_v.c:270).
FsLock(f) ==
    /\ pc[Renderer(f)] = "idle"
    /\ ticks[f] < MaxTicks
    /\ lock[f] = NoOwner
    /\ ~FilterSubSkips(f)
    /\ lock' = [lock EXCEPT ![f] = Renderer(f)]
    /\ ticks' = [ticks EXCEPT ![f] = @ + 1]
    /\ pictures' = IF p_pic[f].alloc THEN picture_Release(pictures, p_pic[f].id)
                                     ELSE pictures
    /\ Goto(Renderer(f), "draw_lock")
    /\ UNCHANGED <<regVars, recVars, soutVars, filt, p_data, b_spu_update, cfg, p_pic,
                   blk, cbArg, i_stream, spu, fault>>

\* Draw, audiobargraph_v.c:262.
DrawLock(f) ==
    /\ pc[Renderer(f)] = "draw_lock"
    /\ mutex[p_data[f]] = NoOwner
    /\ mutex' = [mutex EXCEPT ![p_data[f]] = Renderer(f)]
    /\ Goto(Renderer(f), "draw_size")
    /\ UNCHANGED <<regAlloc, i_refcount, i_count_channels, p_streams, recVars,
                   soutVars, filtVars, blk, cbArg, rendVars, fault>>

\* The picture picture_New returns for the registry's streams, audiobargraph_v.c:
\* 263-270.
NewPic(f) ==
    [alloc |-> TRUE, id |-> Len(pictures) + 1,
     w |-> DrawWidth(p_streams[p_data[f]], cfg[f].barWidth),
     h |-> DrawHeight(cfg[f].barHeight), bars |-> NoBars]

\* Draw, audiobargraph_v.c:263-292: the canvas is sized, allocated and cleared.
DrawSize(f) ==
    /\ pc[Renderer(f)] = "draw_size"
    /\ p_pic' = [p_pic EXCEPT ![f] = NewPic(f)]
    /\ pictures' = picture_New(pictures, f)
    /\ i_stream' = [i_stream EXCEPT ![f] = 1]
    /\ Goto(Renderer(f), "draw_stream")
    /\ UNCHANGED <<regVars, recVars, soutVars, filt, p_data, b_spu_update, lock,
                   cfg, blk, cbArg, ticks, spu, fault>>

\* A failing picture_New that leaves b->p_pic as it was.
DrawFailedPic_keep(old) == old

\* Draw, audiobargraph_v.c:270: b->p_pic when picture_New returns NULL.
DrawFailedPic(old) == NoPic

\* Draw, audiobargraph_v.c:270-272 and 322-323: picture_New fails, unlock.
DrawNoPicture(f) ==
    /\ pc[Renderer(f)] = "draw_size"
    /\ p_pic' = [p_pic EXCEPT ![f] = DrawFailedPic(@)]
    /\ mutex' = [mutex EXCEPT ![p_data[f]] = NoOwner]
    /\ Goto(Renderer(f), "fs_spu")
    /\ UNCHANGED <<pictures, regAlloc, i_refcount, i_count_channels, p_streams, recVars,
                   soutVars, filt, p_data, b_spu_update, lock, cfg, blk, cbArg,
                   rendVars, fault>>

\* Draw, audiobargraph_v.c:293-321: one stream of the loop is drawn.
DrawStream(f) ==
    /\ pc[Renderer(f)] = "draw_stream"
    /\ i_stream[f] <= Len(p_streams[p_data[f]])
    /\ LET h == p_streams[p_data[f]][i_stream[f]]
       IN  IF rec[h].state # "live"
           THEN fault' = "uaf" /\ UNCHANGED p_pic
           ELSE /\ \E v \in DrawPeakRead(h) :
                     p_pic' = [p_pic EXCEPT ![f].bars[h] = v]
                /\ UNCHANGED fault
    /\ i_stream' = [i_stream EXCEPT ![f] = @ + 1]
    /\ UNCHANGED <<regVars, recVars, soutVars, filt, p_data, b_spu_update, lock,
                   cfg, pictures, thrVars, ticks, spu>>

\* Draw, audiobargraph_v.c:293 and 322-323: the loop ends, unlock.
DrawUnlock(f) ==
    /\ pc[Renderer(f)] = "draw_stream"
    /\ i_stream[f] > Len(p_streams[p_data[f]])
    /\ mutex' = [mutex EXCEPT ![p_data[f]] = NoOwner]
    /\ i_stream' = [i_stream EXCEPT ![f] = 0]
    /\ Goto(Renderer(f), "fs_spu")
    /\ UNCHANGED <<regAlloc, i_refcount, i_count_channels, p_streams, recVars,
                   soutVars, filtVars, blk, cbArg, ticks, spu, fault>>

\* FilterSub, audiobargraph_v.c:508-510, 528-534 and 591-594: no subpicture or
\* no region could be allocated, NULL is returned.
FsNoSubpicture(f) ==
    /\ pc[Renderer(f)] = "fs_spu"
    /\ spu' = [spu EXCEPT ![f] = "none"]
    /\ lock' = [lock EXCEPT ![f] = NoOwner]
    /\ Goto(Renderer(f), "idle")
    /\ UNCHANGED <<regVars, recVars, soutVars, filt, p_data, b_spu_update, cfg,
                   p_pic, blk, cbArg, i_stream, ticks, fault, pictures>>

\* FilterSub, audiobargraph_v.c:518: an empty subpicture clears the display.
FilterSubEmpty(f) == ~p_pic[f].alloc \/ cfg[f].i_alpha = 0

\* FilterSub, audiobargraph_v.c:512-519 and 591-594.
FsEmpty(f) ==
    /\ pc[Renderer(f)] = "fs_spu"
    /\ FilterSubEmpty(f)
    /\ spu' = [spu EXCEPT ![f] = "empty"]
    /\ lock' = [lock EXCEPT ![f] = NoOwner]
    /\ Goto(Renderer(f), "idle")
    /\ UNCHANGED <<regVars, recVars, soutVars, filt, p_data, b_spu_update, cfg,
                   p_pic, blk, cbArg, i_stream, ticks, fault, pictures>>

\* FilterSub, audiobargraph_v.c:521-571: the picture is copied into the region
\* and the registry is locked for the stream labels.
LabelLock(f) ==
    /\ pc[Renderer(f)] = "fs_spu"
    /\ ~FilterSubEmpty(f)
    /\ mutex[p_data[f]] = NoOwner
    /\ mutex' = [mutex EXCEPT ![p_data[f]] = Renderer(f)]
    /\ i_stream' = [i_stream EXCEPT ![f] = 1]
    /\ Goto(Renderer(f), "label_stream")
    /\ UNCHANGED <<regAlloc, i_refcount, i_count_channels, p_streams, recVars,
                   soutVars, filtVars, blk, cbArg, ticks, spu, fault>>

\* FilterSub, audiobargraph_v.c:573-586: the label of one stream.
LabelStream(f) ==
    /\ pc[Renderer(f)] = "label_stream"
    /\ i_stream[f] <= Len(p_streams[p_data[f]])
    /\ fault' = IF rec[p_streams[p_data[f]][i_stream[f]]].state # "live"
                THEN "uaf" ELSE fault
    /\ i_stream' = [i_stream EXCEPT ![f] = @ + 1]
    /\ UNCHANGED <<regVars, recVars, soutVars, filtVars, thrVars, ticks, spu>>

\* FilterSub, audiobargraph_v.c:587-594: both locks are released, the
\* subpicture is returned.
LabelUnlock(f) ==
    /\ pc[Renderer(f)] = "label_stream"
    /\ i_stream[f] > Len(p_streams[p_data[f]])
    /\ mutex' = [mutex EXCEPT ![p_data[f]] = NoOwner]
    /\ lock' = [lock EXCEPT ![f] = NoOwner]
    /\ i_stream' = [i_stream EXCEPT ![f] = 0]
    /\ spu' = [spu EXCEPT ![f] = "image"]
    /\ Goto(Renderer(f), "idle")
    /\ UNCHANGED <<regAlloc, i_refcount, i_count_channels, p_streams, recVars,
                   soutVars, filt, p_data, b_spu_update, cfg, p_pic, blk, cbArg,
                   ticks, fault, pictures>>

(***************************************************************************)
(* Spec.                                                                   *)
(***************************************************************************)
StreamStep(h) ==
    \/ AddLock(h) \/ AddAppend(h) \/ AddCount(h)
    \/ DqLock(h) \/ DqFifoLock(h) \/ DqQueue(h)
    \/ DelLock(h) \/ DelRemove(h) \/ DelCount(h) \/ DelFree(h) \/ DelDecoder(h)

CallbackStep(t) == CbPlain(t) \/ CbLock(t) \/ CbRef(t)

RenderStep(f) ==
    \/ FsSkip(f) \/ FsLock(f) \/ DrawLock(f) \/ DrawSize(f) \/ DrawNoPicture(f)
    \/ DrawStream(f) \/ DrawUnlock(f) \/ FsNoSubpicture(f) \/ FsEmpty(f)
    \/ LabelLock(f) \/ LabelStream(f) \/ LabelUnlock(f)

Next ==
    /\ fault = "none"
    /\ UNCHANGED <<meterVars, add_ret>>
    /\ \/ \E h \in Handles : StreamStep(h)
       \/ \E t \in Threads : CallbackStep(t)
       \/ CfgBegin(TheFilter)
       \/ RenderStep(TheFilter)

Spec == Init /\ [][Next]_vars

(***************************************************************************)
(* SpecLife: every handler of the two modules as one atomic action.        *)
(***************************************************************************)
InitLife ==
    /\ InitBase
    /\ sout = [s \in Souts |-> "none"]
    /\ regAlloc = [r \in Souts |-> "none"]
    /\ i_refcount = [r \in Souts |-> 0]
    /\ filt = [f \in Filters |-> "none"]
    /\ b_spu_update = [f \in Filters |-> FALSE]

\* The filters whose BarGraphCallback retains the registry when the variable
\* audiobargraph_v-i_values is set to val, audiobargraph_v.c:347-351.
Retainers(val) == {f \in Filters : filt[f] = "open" /\ CallbackRetains(p_data[f], val)}

RECURSIVE RefTimes(_, _)
RefTimes(n, k) == IF k = 0 THEN n ELSE RefTimes(ref_count(n), k - 1)

\* var_SetAddress(libvlc, "audiobargraph_v-i_values", val) (bargraph.c:299 and
\* 391): the value is stored and BarGraphCallback runs in every open filter.
VarSetAddress(val) ==
    IF Retainers(val) # {} /\ RefDead(val)
    THEN /\ fault' = "assert"
         /\ UNCHANGED <<i_refcount, var_i_values, p_data, b_spu_update>>
    ELSE /\ i_refcount' = [r \in Souts |->
                IF r = val THEN RefTimes(i_refcount[r], Cardinality(Retainers(val)))
                ELSE i_refcount[r]]
         /\ var_i_values' = val
         /\ p_data' = [f \in Filters |->
                IF filt[f] = "open" THEN CallbackData(p_data[f], "i_values", val)
                ELSE p_data[f]]
         /\ b_spu_update' = [f \in Filters |->
                IF filt[f] = "open" THEN CallbackDirty(b_spu_update[f])
                ELSE b_spu_update[f]]
         /\ UNCHANGED fault

\* Open, bargraph.c:261-285 and shared_bargraph_data_new, bargraph.c:192-199.
SoutOpen(s) ==
    /\ sout[s] = "none"
    /\ sout' = [sout EXCEPT ![s] = "open"]
    /\ regAlloc' = [regAlloc EXCEPT ![s] = "live"]
    /\ i_refcount' = [i_refcount EXCEPT ![s] = 1]
    /\ p_streams' = [p_streams EXCEPT ![s] = <<>>]
    /\ i_count_channels' = [i_count_channels EXCEPT ![s] = 0]
    /\ UNCHANGED <<mutex, recVars, var_i_values, filtVars, thrVars, rendVars, fault>>

\* shared_bargraph_data_unref, bargraph.c:201-217 and audiobargraph_v.c:135-150,
\* on registry r whose count is at least 1: the count, and at 0 the streams
\* table is cleaned and the registry freed.
Unref(r) ==
    /\ i_refcount' = [i_refcount EXCEPT ![r] = unref_count(@)]
    /\ regAlloc' = [regAlloc EXCEPT ![r] = IF unref_count(i_refcount[r]) = 0
                                           THEN "freed" ELSE @]
    /\ p_streams' = [p_streams EXCEPT ![r] = IF unref_count(i_refcount[r]) = 0
                                             THEN <<>> ELSE @]

\* Close, bargraph.c:290-303, called once every stream of the instance has been
\* deleted: the variable is set to NULL, then the registry is released.
SoutClose(s) ==
    /\ sout[s] = "open"
    /\ \A h \in Handles : ~(rec[h].state = "live" /\ rec[h].p_sys = s)
    /\ sout' = [sout EXCEPT ![s] = "closed"]
    /\ var_i_values' = NULL
    /\ p_data' = [f \in Filters |->
            IF filt[f] = "open" THEN CallbackData(p_data[f], "i_values", NULL)
            ELSE p_data[f]]
    /\ b_spu_update' = [f \in Filters |->
            IF filt[f] = "open" THEN CallbackDirty(b_spu_update[f])
            ELSE b_spu_update[f]]
    /\ IF RefDead(s)
       THEN fault' = "assert" /\ UNCHANGED <<i_refcount, regAlloc, p_streams>>
       ELSE Unref(s) /\ UNCHANGED fault
    /\ UNCHANGED <<i_count_channels, mutex, recVars, filt, lock, cfg, p_pic,
                   thrVars, rendVars, pictures>>

\* Add, bargraph.c:451-454 with add_stream, bargraph.c:219-242: the stream of
\* es format fmt is registered as h.
AddStream(s, h, fmt) ==
    /\ sout[s] = "open" /\ rec[h].state = "none"
    /\ IF regAlloc[s] # "live"
       THEN fault' = "uaf" /\ UNCHANGED <<rec, p_streams, i_count_channels>>
       ELSE /\ LET R == [rec EXCEPT ![h] = NewRec(s, fmt)]
               IN  /\ rec' = R
                   /\ \E sorted \in shared_bargraph_data_sort_streams(
                                       R, TAB_APPEND(p_streams[s], h)) :
                          p_streams' = [p_streams EXCEPT ![s] = sorted]
                   /\ i_count_channels' = [i_count_channels EXCEPT
                                             ![s] = add_stream_count(R, @, h)]
            /\ UNCHANGED fault
    /\ UNCHANGED <<regAlloc, i_refcount, mutex, fifo, fifoLock, nPushed, dropped,
                   soutVars, filtVars, thrVars, rendVars>>

\* Add, bargraph.c:401-460, for an audio es whose decoder is found.
Add(s, h) == \E fmt \in EsFormats : AddStream(s, h, fmt)

\* Del, bargraph.c:462-485 with del_stream, bargraph.c:244-255.
Del(h) ==
    /\ rec[h].state = "live" /\ sout[rec[h].p_sys] = "open"
    /\ IF regAlloc[rec[h].p_sys] # "live"
       THEN fault' = "uaf" /\ UNCHANGED <<rec, fifo, p_streams, i_count_channels>>
       ELSE /\ \E sorted \in shared_bargraph_data_sort_streams(
                                rec, TAB_REMOVE(p_streams[rec[h].p_sys], h)) :
                 p_streams' = [p_streams EXCEPT ![rec[h].p_sys] = sorted]
            /\ i_count_channels' = [i_count_channels EXCEPT
                                      ![rec[h].p_sys] = del_stream_count(rec, @, h)]
            /\ rec' = [rec EXCEPT ![h].state = "freed"]
            /\ fifo' = [fifo EXCEPT ![h] = <<>>]
            /\ UNCHANGED fault
    /\ UNCHANGED <<regAlloc, i_refcount, mutex, fifoLock, nPushed, dropped,
                   soutVars, filtVars, thrVars, rendVars>>

\* decoder_queue_audio, bargraph.c:313-396, on stream h with peak v, at most
\* cap times.
decoder_queue_audio(h, v, cap) ==
    /\ rec[h].state = "live" /\ sout[rec[h].p_sys] = "open"
    /\ nPushed[h] < cap
    /\ IF regAlloc[rec[h].p_sys] # "live"
       THEN /\ fault' = "uaf"
            /\ UNCHANGED <<fifo, dropped, nPushed, i_refcount, var_i_values,
                           p_data, b_spu_update>>
       ELSE /\ fifo' = [fifo EXCEPT
                          ![h] = FifoQueue(@, [peak |-> v, pts |-> nPushed[h] + 1])]
            /\ dropped' = [dropped EXCEPT ![h] = IF FifoDrops(fifo[h]) THEN @ + 1 ELSE @]
            /\ nPushed' = [nPushed EXCEPT ![h] = @ + 1]
            /\ VarSetAddress(rec[h].p_sys)
    /\ UNCHANGED <<regAlloc, i_count_channels, p_streams, mutex, rec, fifoLock,
                   sout, filt, lock, cfg, p_pic, thrVars, rendVars, pictures>>

\* OpenSub, audiobargraph_v.c:616-627: the configuration it reads when the
\* option transparency is given as transparency.
OpenSubCfg(transparency) ==
    [DefaultCfg EXCEPT !.i_alpha = VLC_CLIP(transparency, 0, 255)]

\* OpenSub, audiobargraph_v.c:600-647, with the option transparency: the
\* callbacks it triggers run with the current value of the variable.
OpenSubWith(f, transparency) ==
    /\ filt[f] = "none"
    /\ filt' = [filt EXCEPT ![f] = "open"]
    /\ cfg' = [cfg EXCEPT ![f] = OpenSubCfg(transparency)]
    /\ p_pic' = [p_pic EXCEPT ![f] = NoPic]
    /\ UNCHANGED pictures
    /\ IF CallbackRetains(NULL, var_i_values) /\ RefDead(var_i_values)
       THEN fault' = "assert" /\ UNCHANGED <<i_refcount, p_data, b_spu_update>>
       ELSE /\ i_refcount' = [r \in Souts |->
                   IF CallbackRetains(NULL, var_i_values) /\ r = var_i_values
                   THEN ref_count(i_refcount[r]) ELSE i_refcount[r]]
            /\ p_data' = [p_data EXCEPT ![f] = CallbackData(NULL, "i_values", var_i_values)]
            /\ b_spu_update' = [b_spu_update EXCEPT ![f] = CallbackDirty(FALSE)]
            /\ UNCHANGED fault
    /\ UNCHANGED <<regAlloc, i_count_channels, p_streams, mutex, recVars, soutVars,
                   lock, thrVars, rendVars>>

\* OpenSub with the default of the option, audiobargraph_v.c:86.
OpenSub(f) == OpenSubWith(f, DefaultCfg.i_alpha)

\* Close, audiobargraph_v.c:652-677.
FilterClose(f) ==
    /\ filt[f] = "open"
    /\ filt' = [filt EXCEPT ![f] = "none"]
    /\ p_data' = [p_data EXCEPT ![f] = NULL]
    /\ b_spu_update' = [b_spu_update EXCEPT ![f] = FALSE]
    /\ p_pic' = [p_pic EXCEPT ![f] = NoPic]
    /\ pictures' = IF p_pic[f].alloc THEN picture_Release(pictures, p_pic[f].id)
                                     ELSE pictures
    /\ IF p_data[f] = NULL
       THEN UNCHANGED <<i_refcount, regAlloc, p_streams, fault>>
       ELSE IF RefDead(p_data[f])
            THEN fault' = "assert" /\ UNCHANGED <<i_refcount, regAlloc, p_streams>>
            ELSE Unref(p_data[f]) /\ UNCHANGED fault
    /\ UNCHANGED <<i_count_channels, mutex, recVars, soutVars, lock, cfg, thrVars,
                   rendVars>>

\* The pictures Draw may leave in b->p_pic for filter f, audiobargraph_v.c:
\* 262-323: none when picture_New fails, else the picture with a bar drawn for
\* every stream of the registry.
DrawnPics(f) ==
    {NoPic} \cup
    {[NewPic(f) EXCEPT !.bars = b] :
        b \in {c \in [Handles -> PeakValues \cup {-1}] :
                  \A h \in Handles :
                      (c[h] # -1) <=>
                      (\E i \in 1 .. Len(p_streams[p_data[f]]) :
                            p_streams[p_data[f]][i] = h)}}

\* What FilterSub returns with picture pic, audiobargraph_v.c:508-594.
FilterSubReturns(f, pic) ==
    IF ~pic.alloc \/ cfg[f].i_alpha = 0 THEN {"none", "empty"} ELSE {"none", "image"}

\* FilterSub, audiobargraph_v.c:487-595 with Draw, audiobargraph_v.c:246-324.
FilterSub(f) ==
    /\ filt[f] = "open"
    /\ ticks[f] < MaxTicks
    /\ ticks' = [ticks EXCEPT ![f] = @ + 1]
    /\ IF FilterSubSkips(f)
       THEN /\ spu' = [spu EXCEPT ![f] = "none"]
            /\ UNCHANGED <<p_pic, pictures, fault>>
       ELSE LET released == IF p_pic[f].alloc
                            THEN picture_Release(pictures, p_pic[f].id)
                            ELSE pictures
            IN  IF regAlloc[p_data[f]] # "live"
                THEN /\ fault' = "uaf"
                     /\ pictures' = released
                     /\ UNCHANGED <<p_pic, spu>>
                ELSE /\ \E pic \in DrawnPics(f) :
                          /\ p_pic' = [p_pic EXCEPT ![f] = pic]
                          /\ pictures' = IF pic.alloc THEN picture_New(released, f)
                                                      ELSE released
                          /\ \E ret \in FilterSubReturns(f, pic) :
                                spu' = [spu EXCEPT ![f] = ret]
                     /\ UNCHANGED fault
    /\ UNCHANGED <<regVars, recVars, soutVars, filt, p_data, b_spu_update, lock, cfg,
                   thrVars, i_stream>>

\* BarGraphCallback, audiobargraph_v.c:329-364, for configuration change a of
\* filter f.
BarGraphCallback(f, a) ==
    /\ filt[f] = "open"
    /\ cfg[f] # BarGraphCallback_cfg(cfg[f], a.var, a.val)
    /\ cfg' = [cfg EXCEPT ![f] = BarGraphCallback_cfg(@, a.var, a.val)]
    /\ b_spu_update' = [b_spu_update EXCEPT ![f] = CallbackDirty(@)]
    /\ UNCHANGED <<regVars, recVars, soutVars, filt, p_data, lock, p_pic, pictures,
                   thrVars, rendVars, fault>>

NextLife ==
    /\ fault = "none"
    /\ UNCHANGED <<meterVars, add_ret>>
    /\ \/ \E s \in Souts : SoutOpen(s)
       \/ \E s \in Souts : SoutClose(s)
       \/ \E s \in Souts, h \in Handles : Add(s, h)
       \/ \E h \in Handles : Del(h)
       \/ \E h \in Handles, v \in SpecPeaks : decoder_queue_audio(h, v, MaxPush)
       \/ \E f \in Filters : OpenSub(f)
       \/ \E f \in Filters : FilterClose(f)
       \/ \E f \in Filters : FilterSub(f)
       \/ \E f \in Filters, a \in SpecCfgInputs : BarGraphCallback(f, a)

SpecLife == InitLife /\ [][NextLife]_vars

(***************************************************************************)
(* SpecFifo: one stream of the stream output, no filter, and a run of      *)
(* decoder_queue_audio calls longer than the fifo's limit.                 *)
(***************************************************************************)
FifoStream == CHOOSE h \in Handles : \A g \in Handles : h <= g

\* Open and Add (bargraph.c:261-285, 401-460) have returned: the registry holds
\* the record of the stream, whose fifo is empty.
InitFifo ==
    /\ p_streams = [r \in Souts |-> IF r = TheSout THEN <<FifoStream>> ELSE <<>>]
    /\ mutex = [r \in Souts |-> NoOwner]
    /\ \E fmt \in EsFormats :
          /\ rec = [h \in Handles |-> IF h = FifoStream THEN NewRec(TheSout, fmt) ELSE NoRec]
          /\ i_count_channels = [r \in Souts |->
                                  IF r = TheSout THEN fmt.i_channels ELSE 0]
    /\ fifo = [h \in Handles |-> <<>>]
    /\ fifoLock = [h \in Handles |-> NoOwner]
    /\ nPushed = [h \in Handles |-> 0]
    /\ dropped = [h \in Handles |-> 0]
    /\ var_i_values = NULL
    /\ p_data = [f \in Filters |-> NULL]
    /\ lock = [f \in Filters |-> NoOwner]
    /\ cfg = [f \in Filters |-> DefaultCfg]
    /\ p_pic = [f \in Filters |-> NoPic]
    /\ pictures = <<>>
    /\ block_in = NoBlockIn
    /\ f_value = 0
    /\ draw = NoDraw
    /\ add_ret = NoAdd
    /\ pc = [t \in Threads |-> "idle"]
    /\ blk = [h \in Handles |-> NoBlk]
    /\ cbArg = [t \in Threads |-> NoArg]
    /\ i_stream = [f \in Filters |-> 0]
    /\ ticks = [f \in Filters |-> 0]
    /\ spu = [f \in Filters |-> "none"]
    /\ fault = "none"
    /\ sout = [s \in Souts |-> IF s = TheSout THEN "open" ELSE "none"]
    /\ regAlloc = [r \in Souts |-> IF r = TheSout THEN "live" ELSE "none"]
    /\ i_refcount = [r \in Souts |-> IF r = TheSout THEN 1 ELSE 0]
    /\ filt = [f \in Filters |-> "none"]
    /\ b_spu_update = [f \in Filters |-> FALSE]

NextFifo ==
    /\ fault = "none"
    /\ UNCHANGED <<meterVars, add_ret>>
    /\ \E v \in SpecPeaks : decoder_queue_audio(FifoStream, v, FifoLimit + QueueRun)

SpecFifo == InitFifo /\ [][NextFifo]_vars

(***************************************************************************)
(* Properties.                                                             *)
(***************************************************************************)
\* The stream ids of sequence s are in ascending order.
AscendingIds(s) ==
    \A i, j \in 1 .. Len(s) : i < j => rec[s[i]].i_stream_id <= rec[s[j]].i_stream_id

\* C1: whenever the mutex of a registry is not held, i_count_channels is the
\* sum of i_nb_channels over the records in p_streams.
C1_CountIsSum ==
    \A r \in Souts :
        regAlloc[r] = "live" /\ mutex[r] = NoOwner
            => i_count_channels[r] = SumChannels(p_streams[r])

\* C1 happens: a stream has been removed and freed, another is still in the
\* registry, and the mutex is free.
C1_Witness ==
    /\ mutex[TheSout] = NoOwner
    /\ p_streams[TheSout] # <<>>
    /\ i_count_channels[TheSout] > 0
    /\ \E h \in Handles : rec[h].state = "freed"

\* C2: whenever the mutex of a registry is not held (after every add_stream and
\* del_stream), p_streams is in ascending order of i_stream_id.
C2_SortedById ==
    \A r \in Souts :
        regAlloc[r] = "live" /\ mutex[r] = NoOwner => AscendingIds(p_streams[r])

\* C3: the fifo of a stream never holds more than 100 blocks, and once more
\* than 100 blocks have been pushed the first one is gone.
C3_FifoBound ==
    \A h \in Handles :
        /\ Len(fifo[h]) <= FifoLimit
        /\ nPushed[h] > FifoLimit => \A i \in 1 .. Len(fifo[h]) : fifo[h][i].pts # 1

\* C4: a decoder_queue_audio call drops at most one block, the oldest; the
\* blocks that stay keep their order, the new block is the newest, and the call
\* does not fail.
C4_DropOldest ==
    [][\A h \in Handles :
          nPushed'[h] # nPushed[h] =>
              /\ fault' = "none"
              /\ fifo'[h] # <<>>
              /\ fifo'[h][Len(fifo'[h])].pts = nPushed'[h]
              /\ \/ SubSeq(fifo'[h], 1, Len(fifo'[h]) - 1) = fifo[h]
                 \/ /\ fifo[h] # <<>>
                    /\ SubSeq(fifo'[h], 1, Len(fifo'[h]) - 1) = Tail(fifo[h])]_vars

\* C4 happens: a block has been dropped and the fifo holds later ones.
C4_Witness ==
    \E h \in Handles : dropped[h] > 0 /\ Len(fifo[h]) > 1 /\ nPushed[h] > FifoLimit

\* The peak of the block most recently queued on stream h, 0 if there is none.
LatestPeak(h) == IF fifo[h] = <<>> THEN 0 ELSE fifo[h][Len(fifo[h])].peak

\* C5: the bar Draw draws for a stream is computed from the block most recently
\* queued on the stream's fifo, which Draw takes from the fifo, and from zero
\* when the fifo is empty.
C5_DrawUsesLatestPeak ==
    [][\A f \in Filters :
          (pc[Renderer(TheFilter)] = "draw_stream" /\ f = TheFilter
              /\ i_stream'[f] = i_stream[f] + 1) =>
              LET h == p_streams[p_data[f]][i_stream[f]]
              IN  /\ p_pic'[f].bars[h] = LatestPeak(h)
                  /\ fifo[h] # <<>> => Len(fifo'[h]) < Len(fifo[h])]_vars

\* C6: a registry is not freed while the stream output that created it is open
\* or an open filter stores a pointer to it.
C6_NoFreeWhileHeld ==
    \A r \in Souts :
        regAlloc[r] = "freed" =>
            /\ sout[r] # "open"
            /\ \A f \in Filters : ~(filt[f] = "open" /\ p_data[f] = r)

\* C7: a registry is created with i_refcount 1 and no stream, and
\* shared_bargraph_data_ref / shared_bargraph_data_unref are never called on a
\* registry whose i_refcount is 0.
C7_RefcountAsserts ==
    /\ fault # "assert"
    /\ \A r \in Souts :
          regAlloc[r] = "live" /\ sout[r] = "open"
              /\ (\A h \in Handles : rec[h].p_sys # r)
              /\ (\A f \in Filters : p_data[f] # r) /\ var_i_values # r
              => i_refcount[r] = 1 /\ p_streams[r] = <<>>

\* C8: a FilterSub call that rendered leaves b_spu_update cleared, and a call
\* that finds b_spu_update cleared returns no image.
C8_TickClearsFlag ==
    [][/\ (pc[Renderer(TheFilter)] # "idle" /\ pc'[Renderer(TheFilter)] = "idle")
            => ~b_spu_update'[TheFilter]
       /\ (pc[Renderer(TheFilter)] = "idle" /\ ticks'[TheFilter] # ticks[TheFilter]
            /\ ~b_spu_update[TheFilter])
            => (pc'[Renderer(TheFilter)] = "idle" /\ spu'[TheFilter] = "none")]_vars

\* Every push and every render tick of the run is done, no callback is running
\* and the streams are still in the registry.
RunEnded ==
    /\ \A h \in Handles : pc[Producer(h)] = "ready" /\ nPushed[h] = MaxPush
    /\ pc[Renderer(TheFilter)] = "idle" /\ ticks[TheFilter] = MaxTicks
    /\ pc[Config(TheFilter)] = "idle"

\* C9: no thread is blocked for ever, and when the run has ended the registry
\* is sorted by stream id and its channel count is the sum over its streams.
C9_EndState ==
    /\ fault = "none"
    /\ RunEnded =>
          /\ AscendingIds(p_streams[TheSout])
          /\ i_count_channels[TheSout] = SumChannels(p_streams[TheSout])
          /\ \A r \in Souts : mutex[r] = NoOwner

\* C10: every record Draw or the label loop of FilterSub reads is in the
\* registry and not freed.
C10_NoDanglingRecord ==
    /\ fault # "uaf"
    /\ \A f \in Filters :
          (f = TheFilter /\ pc[Renderer(f)] \in {"draw_stream", "label_stream"}) =>
              \A i \in 1 .. Len(p_streams[p_data[f]]) :
                  rec[p_streams[p_data[f]][i]].state = "live"

\* C10 happens: the label loop is about to read a record while a stream this
\* render pass has drawn is removed from the registry and freed.
C10_Witness ==
    /\ pc[Renderer(TheFilter)] = "label_stream"
    /\ i_stream[TheFilter] <= Len(p_streams[p_data[TheFilter]])
    /\ \E h \in Handles : rec[h].state = "freed" /\ p_pic[TheFilter].bars[h] # -1

\* C11: a decoder_queue_audio call that queues its block holds the fifo's lock
\* only, never the mutex of the registry.
C11_EnqueueFifoLockOnly ==
    \A h \in Handles :
        pc[Producer(h)] \in {"dq_fifo_lock", "dq_queue"} =>
            \A r \in Souts : mutex[r] # Producer(h)

\* C12: Draw has released the mutex of the registry when it draws the bars of
\* the streams.
C12_DrawsUnlocked ==
    pc[Renderer(TheFilter)] = "draw_stream" =>
        \A r \in Souts : mutex[r] # Renderer(TheFilter)

\* C13: the picture Draw allocates for a registry of N streams (N >= 0) is
\* barWidth + sum of (i_nb_channels + 1) * (barWidth + 5) wide and
\* barHeight + 30 high.
C13_CanvasSize ==
    [][(pc[Renderer(TheFilter)] = "draw_size"
          /\ pc'[Renderer(TheFilter)] = "draw_stream") =>
          LET s == p_streams[p_data[TheFilter]]
              W == cfg[TheFilter].barWidth
          IN  /\ p_pic'[TheFilter].alloc
              /\ p_pic'[TheFilter].w = W + (SumChannels(s) + Len(s)) * (W + 5)
              /\ p_pic'[TheFilter].h = cfg[TheFilter].barHeight + 30]_vars

\* C13 happens: Draw has allocated the picture of a registry of two streams
\* that differ in their channel counts.
C13_Witness ==
    /\ pc[Renderer(TheFilter)] = "draw_stream"
    /\ p_pic[TheFilter].alloc
    /\ Len(p_streams[p_data[TheFilter]]) = 2
    /\ \E i, j \in 1 .. 2 :
          rec[p_streams[p_data[TheFilter]][i]].i_nb_channels
              # rec[p_streams[p_data[TheFilter]][j]].i_nb_channels

\* C14: for the same registry, barWidth and barHeight, Draw and DrawBargraph
\* give the same width and height and advance their cursors by the same
\* amounts after a channel and after a stream.
C14_SameGeometry ==
    LET s == p_streams[TheSout]
        W == cfg[TheFilter].barWidth
        H == cfg[TheFilter].barHeight
    IN  /\ DrawWidth(s, W) = DrawBargraphWidth(s, W)
        /\ DrawHeight(H) = DrawBargraphHeight(H)
        /\ DrawChannelAdvance(W) = DrawBargraphChannelAdvance(W)
        /\ DrawStreamAdvance(W) = DrawBargraphStreamAdvance(W)

\* C15: when the size Draw computes is the size of the picture of the previous
\* pass, the pass leaves that picture in place: it is neither released nor
\* replaced by a new one.
C15_KeepsPicture ==
    [][(pc[Renderer(TheFilter)] = "draw_size"
          /\ pc'[Renderer(TheFilter)] = "draw_stream"
          /\ p_pic[TheFilter].alloc
          /\ p_pic'[TheFilter].w = p_pic[TheFilter].w
          /\ p_pic'[TheFilter].h = p_pic[TheFilter].h) =>
          /\ p_pic'[TheFilter].id = p_pic[TheFilter].id
          /\ pictures' = pictures
          /\ pictures[p_pic[TheFilter].id].state = "live"]_vars

\* The pictures of filter f that are allocated.
LivePictures(f) ==
    {i \in 1 .. Len(pictures) : pictures[i].state = "live" /\ pictures[i].owner = f}

\* C16: a pass that follows a change of barWidth or barHeight sizes its
\* picture from the new values; a filter holds at most one picture, the one
\* p_pic points to, so that a later pass or Close releases it, and a picture is
\* released once only.
C16_NoPictureLeak ==
    [][\A f \in Filters :
          /\ Cardinality(LivePictures(f)') <= 1
          /\ \A i \in LivePictures(f)' :
                filt'[f] = "open" /\ p_pic'[f].alloc /\ p_pic'[f].id = i
          /\ p_pic'[f].alloc => pictures'[p_pic'[f].id].state = "live"
          /\ Len(pictures') > Len(pictures) /\ p_pic'[f] # p_pic[f] =>
                /\ p_pic'[f].w = cfg[f].barWidth
                      + (SumChannels(p_streams[p_data[f]]) + Len(p_streams[p_data[f]]))
                        * (cfg[f].barWidth + 5)
                /\ p_pic'[f].h = cfg[f].barHeight + 30
                /\ \A i \in 1 .. Len(pictures) :
                      pictures[i].owner = f => pictures'[i].state = "released"]_vars

\* C16 happens: after a change of barWidth the filter has drawn a second
\* picture, and Close has released it.
C16_Witness ==
    \E f \in Filters :
        /\ filt[f] = "none"
        /\ cfg[f].barWidth # DefaultCfg.barWidth
        /\ Len(pictures) >= 2
        /\ \A i \in 1 .. Len(pictures) : pictures[i].state = "released"

(***************************************************************************)
(* SpecMeter: the arithmetic of the two modules, applied to one channel.   *)
(* The peak extraction of decoder_queue_audio on a decoded block, and      *)
(* iec_scale and the bar height of Draw, one computation at a time (the    *)
(* variables hold the last one).  A level in dB is counted in              *)
(* thousandths of a dB, a value of iec_scale in 1 / ScaleOne, a sample and *)
(* a peak of the extraction in 1 / FullScale.                              *)
(***************************************************************************)
\* Thousandths per dB, and the value 1.0f of iec_scale.
DbUnit == 1000
ScaleOne == 400000

\* Comparisons of a float with a number: false when the float is NaN.
FloatLt(x, c) == x.k = "ninf" \/ (x.k = "num" /\ x.v < c)
FloatGt(x, c) == x.k = "num" /\ x.v > c

\* iec_scale with the segment from -40 dB to -30 dB starting at 0.4 and not
\* at 0.15.
iec_scale_step(dB) ==
    IF FloatLt(dB, -70 * DbUnit) THEN 0
    ELSE IF FloatLt(dB, -60 * DbUnit) THEN (dB.v + 70 * DbUnit) * 1
    ELSE IF FloatLt(dB, -50 * DbUnit) THEN (dB.v + 60 * DbUnit) * 2 + 10000
    ELSE IF FloatLt(dB, -40 * DbUnit) THEN (dB.v + 50 * DbUnit) * 3 + 30000
    ELSE IF FloatLt(dB, -30 * DbUnit) THEN (dB.v + 40 * DbUnit) * 6 + 160000
    ELSE IF FloatLt(dB, -20 * DbUnit) THEN (dB.v + 30 * DbUnit) * 8 + 120000
    ELSE IF FloatLt(dB, -1) \/ FloatGt(dB, 1) THEN (dB.v + 20 * DbUnit) * 10 + 200000
    ELSE ScaleOne

\* iec_scale, audiobargraph_v.c:195-212.
iec_scale(dB) ==
    IF FloatLt(dB, -70 * DbUnit) THEN 0
    ELSE IF FloatLt(dB, -60 * DbUnit) THEN (dB.v + 70 * DbUnit) * 1
    ELSE IF FloatLt(dB, -50 * DbUnit) THEN (dB.v + 60 * DbUnit) * 2 + 10000
    ELSE IF FloatLt(dB, -40 * DbUnit) THEN (dB.v + 50 * DbUnit) * 3 + 30000
    ELSE IF FloatLt(dB, -30 * DbUnit) THEN (dB.v + 40 * DbUnit) * 6 + 60000
    ELSE IF FloatLt(dB, -20 * DbUnit) THEN (dB.v + 30 * DbUnit) * 8 + 120000
    ELSE IF FloatLt(dB, -1) \/ FloatGt(dB, 1) THEN (dB.v + 20 * DbUnit) * 10 + 200000
    ELSE ScaleOne

\* The peaks Draw is applied to, in ten-thousandths: -1.0, 0.0, the powers of
\* ten from 0.0001 to 10.0.
PeakLevels == {-10000, 0, 1, 10, 100, 1000, 10000, 100000}

\* log10 of a power of ten.
RECURSIVE Log10(_)
Log10(n) == IF n < 10 THEN 0 ELSE 1 + Log10(n \div 10)

\* Draw, audiobargraph_v.c:298: log10(channels_peaks[i]) * 20 for a peak in
\* ten-thousandths; log10 of 0 is minus infinity, of a negative number NaN.
DrawDb(peak) ==
    IF peak < 0 THEN NaN
    ELSE IF peak = 0 THEN MinusInf
    ELSE Num((Log10(peak) - Log10(10000)) * 20 * DbUnit)

\* Draw, audiobargraph_v.c:299: db, in 1 / ScaleOne of a line.
DrawBar(dB, barHeight) == VLC_CLIP(iec_scale(dB) * barHeight, 0, barHeight * ScaleOne)

\* Draw, audiobargraph_v.c:301: the lines "for (line = 20; line < db + 20;
\* line++)" fills.
DrawFilledLines(db) == (db + ScaleOne - 1) \div ScaleOne

\* The levels iec_scale is applied to: around each of its thresholds, below
\* the lowest and above 0 dB, and the levels of Draw's scale marks.
DbThresholds == {-70, -60, -50, -40, -30, -20, 0}
DbInputs ==
    {Num(t * DbUnit + d) : t \in DbThresholds, d \in {-2, -1, 0, 1, 2}}
    \cup {Num(t * DbUnit) : t \in {-75, -10, -8, -18, 6, 20}}
    \cup {MinusInf, NaN}

\* The bar heights Draw is applied to.
BarHeights == {1, DefaultCfg.barHeight}

\* The sample encodings decoder_queue_audio supports, bargraph.c:331-362.
Codecs == {"F32L", "F64L", "S32N", "S16N", "U8"}

\* Bits of an integer sample in the model (the real widths are 32, 16 and 8).
SampleBits == 4
FullScale == 2 ^ (SampleBits - 1)

\* The values a sample of the encoding takes: a float in [-1.0, 1.0], a signed
\* integer, an unsigned integer whose silence is FullScale.
Samples(codec) ==
    CASE codec \in {"F32L", "F64L"} -> -FullScale .. FullScale
      [] codec \in {"S32N", "S16N"} -> -FullScale .. FullScale - 1
      [] codec = "U8" -> 0 .. 2 * FullScale - 1

\* The blocks decoder_queue_audio is applied to: one or two samples.
Blocks(codec) ==
    {<<a>> : a \in Samples(codec)} \cup {<<a, b>> : a, b \in Samples(codec)}

\* MAX_CHANNELS_AS_TYPE, bargraph.c:321-331: i_value starts at 0 and takes
\* every sample that is greater.
RECURSIVE MAX_CHANNELS_AS_TYPE(_)
MAX_CHANNELS_AS_TYPE(samples) ==
    IF samples = <<>> THEN 0
    ELSE LET i_value == MAX_CHANNELS_AS_TYPE(SubSeq(samples, 1, Len(samples) - 1))
             ch == samples[Len(samples)]
         IN  IF ch > i_value THEN ch ELSE i_value

\* decoder_queue_audio, bargraph.c:333-362: f_value of the channel, in
\* 1 / FullScale.
PeakOf(codec, samples) ==
    IF codec = "U8" THEN MAX_CHANNELS_AS_TYPE(samples) - FullScale
    ELSE MAX_CHANNELS_AS_TYPE(samples)

InitMeter ==
    /\ InitBase
    /\ sout = [s \in Souts |-> "none"]
    /\ regAlloc = [r \in Souts |-> "none"]
    /\ i_refcount = [r \in Souts |-> 0]
    /\ filt = [f \in Filters |-> "none"]
    /\ b_spu_update = [f \in Filters |-> FALSE]

\* decoder_queue_audio, bargraph.c:313-368, on one channel of a block; the
\* blocks are taken one after a computation of the filter.
ExtractPeak ==
    /\ block_in = NoBlockIn
    /\ \E codec \in Codecs : \E samples \in Blocks(codec) :
          /\ block_in' = [i_codec |-> codec, samples |-> samples]
          /\ f_value' = PeakOf(codec, samples)
    /\ draw' = NoDraw

\* A call of iec_scale, audiobargraph_v.c:195-212.
IecScale ==
    /\ \E dB \in DbInputs :
          draw' = [NoDraw EXCEPT !.dB = dB, !.scale = iec_scale(dB)]
    /\ block_in' = NoBlockIn /\ f_value' = 0

\* Draw, audiobargraph_v.c:296-317, on one channel.
DrawChannel ==
    /\ \E peak \in PeakLevels, barHeight \in BarHeights :
          draw' = [peak |-> Num(peak), barHeight |-> barHeight, dB |-> DrawDb(peak),
                   scale |-> iec_scale(DrawDb(peak)),
                   db |-> DrawBar(DrawDb(peak), barHeight)]
    /\ block_in' = NoBlockIn /\ f_value' = 0

NextMeter ==
    /\ \/ ExtractPeak
       \/ IecScale
       \/ DrawChannel
    /\ UNCHANGED <<regVars, recVars, soutVars, filtVars, thrVars, rendVars, fault,
                   add_ret>>

SpecMeter == InitMeter /\ [][NextMeter]_vars

\* C17: the bar of a channel whose peak is 1.0 fills barHeight lines, that of
\* a channel whose peak is 0.0 fills none, and the bar of any peak fills
\* between 0 and barHeight lines.
C17_BarHeight ==
    draw.barHeight > 0 =>
        /\ draw.peak = Num(10000) => DrawFilledLines(draw.db) = draw.barHeight
        /\ draw.peak = Num(0) => DrawFilledLines(draw.db) = 0
        /\ 0 <= DrawFilledLines(draw.db)
        /\ DrawFilledLines(draw.db) <= draw.barHeight

\* C17 happens: Draw has computed the bar of a peak above 1.0, which
\* iec_scale maps above 1.
C17_Witness ==
    /\ draw.barHeight = DefaultCfg.barHeight
    /\ draw.peak = Num(100000)
    /\ draw.scale > ScaleOne
    /\ DrawFilledLines(draw.db) = draw.barHeight

\* C18: iec_scale is non-decreasing over the levels, across each of its
\* thresholds, and iec_scale(0) = 1.0, iec_scale(-70) = 0.0,
\* iec_scale(-75) = 0.0.
C18_Monotonic ==
    draw # NoDraw =>
        /\ \A b \in DbInputs :
              (draw.dB.k # "nan" /\ b.k # "nan"
                  /\ (draw.dB.k = "ninf" \/ (b.k = "num" /\ draw.dB.v <= b.v)))
                  => draw.scale <= iec_scale(b)
        /\ draw.dB = Num(0) => draw.scale = ScaleOne
        /\ draw.dB = Num(-70 * DbUnit) => draw.scale = 0
        /\ draw.dB = Num(-75 * DbUnit) => draw.scale = 0

\* C18 happens: iec_scale has been called just below its threshold at -20 dB.
C18_Witness ==
    /\ draw.barHeight = 0
    /\ draw.dB = Num(-20 * DbUnit - 1)
    /\ draw.scale > 0 /\ draw.scale < iec_scale(Num(-20 * DbUnit))

\* C19: iec_scale returns a value between 0 and 1, and 1 for every level of
\* 0 dB or more.
C19_ScaleRange ==
    draw # NoDraw =>
        /\ 0 <= draw.scale
        /\ draw.scale <= ScaleOne
        /\ (draw.dB.k = "num" /\ draw.dB.v >= 0) => draw.scale = ScaleOne

\* The greatest magnitude of the samples of a block, in 1 / FullScale: of a
\* sample of U8 the magnitude is its distance from the silence FullScale.
RECURSIVE MaxAbs(_, _)
MaxAbs(codec, samples) ==
    IF samples = <<>> THEN 0
    ELSE LET rest == MaxAbs(codec, Tail(samples))
             x == IF codec = "U8" THEN Head(samples) - FullScale ELSE Head(samples)
             mag == IF x < 0 THEN -x ELSE x
         IN  IF mag > rest THEN mag ELSE rest

\* C20: the peak decoder_queue_audio computes for a channel of a block is the
\* greatest magnitude of the channel's samples, a value between 0 and 1.
C20_PeakIsMaxAbs ==
    block_in # NoBlockIn =>
        /\ f_value = MaxAbs(block_in.i_codec, block_in.samples)
        /\ 0 <= f_value /\ f_value <= FullScale

\* C23: when picture_New fails in Draw, the pass leaves the mutex of the
\* registry free and NULL in p_pic, FilterSub returns no image and releases
\* the lock of the filter, and the process goes on.
C23_AllocFailure ==
    [][/\ (pc[Renderer(TheFilter)] = "draw_size" /\ pc'[Renderer(TheFilter)] = "fs_spu")
            => /\ \A r \in Souts : mutex'[r] # Renderer(TheFilter)
               /\ ~p_pic'[TheFilter].alloc
               /\ \A i \in 1 .. Len(pictures') :
                     pictures'[i].owner = TheFilter => pictures'[i].state = "released"
               /\ fault' = "none"
       /\ (pc[Renderer(TheFilter)] = "fs_spu" /\ ~p_pic[TheFilter].alloc
              /\ pc'[Renderer(TheFilter)] # "fs_spu")
            => /\ pc'[Renderer(TheFilter)] = "idle"
               /\ spu'[TheFilter] \in {"none", "empty"}
               /\ lock'[TheFilter] = NoOwner
               /\ \A r \in Souts : mutex'[r] # Renderer(TheFilter)
               /\ fault' = "none"]_vars

\* C23 happens: the previous pass returned an empty subpicture because
\* picture_New failed, and the current pass has allocated its picture and
\* drawn it.
C23_Witness ==
    /\ pc[Renderer(TheFilter)] = "label_stream"
    /\ spu[TheFilter] = "empty"
    /\ cfg[TheFilter].i_alpha # 0
    /\ p_pic[TheFilter].alloc
    /\ pictures[p_pic[TheFilter].id].state = "live"
    /\ lock[TheFilter] = Renderer(TheFilter)

\* C28: a FilterSub call that finds b_spu_update cleared or p_data NULL returns
\* no image, leaves the registries, the records and the picture as they are
\* and releases the lock of the filter; Draw and FilterSub lock the mutex of a
\* registry only when p_data points to it; every return of FilterSub leaves
\* the lock of the filter free.
C28_SkipTick ==
    [][/\ (pc[Renderer(TheFilter)] = "idle" /\ ticks'[TheFilter] # ticks[TheFilter]
              /\ (~b_spu_update[TheFilter] \/ p_data[TheFilter] = NULL))
            => /\ pc'[Renderer(TheFilter)] = "idle"
               /\ spu'[TheFilter] = "none"
               /\ regVars' = regVars /\ recVars' = recVars
               /\ p_pic' = p_pic /\ pictures' = pictures
               /\ lock'[TheFilter] = NoOwner
       /\ pc'[Renderer(TheFilter)] # "idle" => p_data'[TheFilter] # NULL
       /\ \A r \in Souts :
             (mutex'[r] = Renderer(TheFilter) /\ mutex[r] # Renderer(TheFilter))
                => p_data[TheFilter] = r
       /\ (pc[Renderer(TheFilter)] # "idle" /\ pc'[Renderer(TheFilter)] = "idle")
            => lock'[TheFilter] = NoOwner]_vars

\* C28 happens: FilterSub has been called before any registry was published
\* and has returned no image.
C28_Witness ==
    /\ pc[Renderer(TheFilter)] = "idle"
    /\ ticks[TheFilter] > 0
    /\ p_data[TheFilter] = NULL
    /\ spu[TheFilter] = "none"
    /\ ~p_pic[TheFilter].alloc /\ pictures = <<>>
    /\ lock[TheFilter] # Renderer(TheFilter)

\* The positions where a thread of Spec requests the lock of the filter, the
\* mutex of a registry and the lock of a fifo.
RequestsLock(t) == pc[t] = "cb_lock" \/ (t[1] = "render" /\ pc[t] = "idle")
RequestsMutex(t) ==
    \/ t[1] = "stream" /\ pc[t] \in {"idle", "ready"}
    \/ pc[t] \in {"cb_ref", "draw_lock"}
    \/ t[1] = "render" /\ pc[t] = "fs_spu" /\ ~FilterSubEmpty(t[2])
RequestsFifoLock(t) == pc[t] = "dq_fifo_lock"

HoldsMutex(t) == \E r \in Souts : mutex[r] = t
HoldsFifoLock(t) == \E h \in Handles : fifoLock[h] = t

\* C26: the locks are taken in the order lock of the filter, mutex of the
\* registry, lock of the fifo: a thread that requests the lock of the filter
\* holds neither a mutex nor a fifo lock, a thread that requests a mutex holds
\* neither a mutex nor a fifo lock, and a thread that requests a fifo lock
\* holds none.
C26_LockOrder ==
    \A t \in Threads :
        /\ RequestsLock(t) => ~HoldsMutex(t) /\ ~HoldsFifoLock(t)
        /\ RequestsMutex(t) => ~HoldsMutex(t) /\ ~HoldsFifoLock(t)
        /\ RequestsFifoLock(t) => ~HoldsFifoLock(t)

\* C26 happens: a stream thread runs BarGraphCallback with the lock of the
\* filter held and requests the mutex of the registry, which another stream
\* thread holds together with the lock of its fifo.
C26_Witness ==
    \E g, h \in Handles :
        /\ pc[Producer(g)] = "cb_ref" /\ lock[TheFilter] = Producer(g)
        /\ pc[Producer(h)] = "dq_queue"
        /\ mutex[cbArg[Producer(g)].val] = Producer(h)
        /\ fifoLock[h] = Producer(h)

\* The sign of an integer.
Sign(x) == IF x < 0 THEN -1 ELSE IF x > 0 THEN 1 ELSE 0

\* C30: for every two records, bargraph_data_cmp is negative, zero or positive
\* as the stream id of the first is less than, equal to or greater than that
\* of the second, and the registry is in ascending order of the ids.
C30_ComparatorSign ==
    /\ \A a, b \in Handles :
          (rec[a].state = "live" /\ rec[b].state = "live") =>
              Sign(bargraph_data_cmp(rec, a, b))
                  = Sign(rec[a].i_stream_id - rec[b].i_stream_id)
    /\ \A r \in Souts :
          (regAlloc[r] = "live" /\ mutex[r] = NoOwner) =>
              \A i \in 1 .. Len(p_streams[r]) - 1 :
                  rec[p_streams[r][i]].i_stream_id <= rec[p_streams[r][i + 1]].i_stream_id

\* The holders of registry r: the stream output that created it while it is
\* open, and every open filter whose p_data points to it.
Holders(r) ==
    (IF sout[r] = "open" THEN 1 ELSE 0)
        + Cardinality({f \in Filters : filt[f] = "open" /\ p_data[f] = r})

\* C24: the i_refcount of a registry is the number of its holders.
C24_RefcountIsHolders ==
    \A r \in Souts : regAlloc[r] = "live" => i_refcount[r] = Holders(r)

\* C25: once the stream output of a registry and every filter have closed, in
\* whichever order, the i_refcount of the registry is 0 and the registry is
\* freed.
C25_FreedWhenAllClosed ==
    \A r \in Souts :
        (sout[r] = "closed" /\ \A f \in Filters : filt[f] # "open") =>
            i_refcount[r] = 0 /\ regAlloc[r] = "freed"

\* C27: no decoder_queue_audio call queues on a record that Del has freed, and
\* a record is freed only when the decoder of its stream is unloaded and can
\* no longer call decoder_queue_audio.
C27_NoEnqueueAfterFree ==
    \A h \in Handles :
        /\ pc[Producer(h)] \in {"dq_fifo_lock", "dq_queue"} => rec[h].state = "live"
        /\ rec[h].state = "freed" => ~p_module(h)

(***************************************************************************)
(* SpecConfig: a filter alone, opened with any value of the option         *)
(* transparency, reconfigured by any sequence of callbacks, closed and     *)
(* opened again.                                                           *)
(***************************************************************************)
\* The values of the option transparency OpenSub is given: the default, a
\* value below the range and one above it.
TransparencyOptions == {DefaultCfg.i_alpha, -7, 300}

\* The variables the callbacks of SpecConfig are called for, with values
\* inside and outside their ranges (77 is no position bitmask).
ConfigInputs ==
    {[var |-> "transparency", val |-> v] : v \in {-1, 128, 256, 1000}}
    \cup {[var |-> "position", val |-> v] : v \in {6, 77}}
    \cup {[var |-> "x", val |-> 5], [var |-> "y", val |-> -5],
          [var |-> "barWidth", val |-> 10], [var |-> "barHeight", val |-> 100]}

NextConfig ==
    /\ fault = "none"
    /\ UNCHANGED <<meterVars, add_ret>>
    /\ \/ \E f \in Filters, o \in TransparencyOptions : OpenSubWith(f, o)
       \/ \E f \in Filters, a \in ConfigInputs : BarGraphCallback(f, a)
       \/ \E f \in Filters : FilterClose(f)

SpecConfig == InitLife /\ [][NextConfig]_vars

MaxBlocks == 2

\* The es formats Add is called with: audio streams whose decoder is found,
\* an audio stream without decoder, a video stream and a subtitle stream.
EsInputs ==
    {[i_cat |-> "AUDIO_ES", decoder |-> TRUE, i_id |-> fmt.i_id,
      i_channels |-> fmt.i_channels] : fmt \in EsFormats}
    \cup {[i_cat |-> c, decoder |-> FALSE, i_id |-> 1, i_channels |-> 1] :
             c \in {"AUDIO_ES", "VIDEO_ES", "SPU_ES"}}

\* An Add that registers whatever it is given.
AddAccepts_any(es) == TRUE

\* Add, bargraph.c:406-449: the stream is registered when it is an audio
\* stream and module_need found its decoder.
AddAccepts(es) == es.i_cat = "AUDIO_ES" /\ es.decoder

\* Add, bargraph.c:401-460, called with es format es; h is the stream context
\* it allocates.
AddEs(s, h, es) ==
    /\ add_ret' = [i_cat |-> es.i_cat, decoder |-> es.decoder, i_id |-> es.i_id,
                   i_channels |-> es.i_channels,
                   id |-> IF AddAccepts(es) THEN h ELSE NULL]
    /\ IF AddAccepts(es)
       THEN AddStream(s, h, es)
       ELSE /\ sout[s] = "open" /\ rec[h].state = "none"
            /\ UNCHANGED <<regVars, recVars, soutVars, filtVars, thrVars, rendVars,
                           fault>>

\* The encoding of a block that decoder_queue_audio does not know.
UnsupportedCodec == "MPGA"

\* The blocks the decoders of SpecSout deliver: one sample that is not silence
\* in every encoding, so that a peak of 0 is that of an unsupported block.
SoutBlocks ==
    {[i_codec |-> c, samples |-> <<FullScale - 1>>] :
        c \in Codecs \cup {UnsupportedCodec}}

\* A decoder_queue_audio that reads a block of unknown encoding as floats.
decoder_f_value_float(codec, samples) == PeakOf("F32L", samples)

\* decoder_queue_audio, bargraph.c:318-368: f_value of the channel; in the
\* last branch it is left as memset filled it.
decoder_f_value(codec, samples) ==
    IF codec \in Codecs THEN PeakOf(codec, samples) ELSE 0

\* decoder_queue_audio, bargraph.c:395: its only return.
decoder_queue_audio_ret(codec) == 0

\* decoder_queue_audio, bargraph.c:313-396, called by the decoder of stream h
\* with a block.
QueueBlock(h) ==
    \E b \in SoutBlocks :
        /\ block_in' = b
        /\ f_value' = decoder_f_value(b.i_codec, b.samples)
        /\ decoder_queue_audio(h, decoder_f_value(b.i_codec, b.samples), MaxBlocks)
        /\ UNCHANGED draw

InitSout ==
    /\ InitBase
    /\ sout = [s \in Souts |-> IF s = TheSout THEN "open" ELSE "none"]
    /\ regAlloc = [r \in Souts |-> IF r = TheSout THEN "live" ELSE "none"]
    /\ i_refcount = [r \in Souts |-> IF r = TheSout THEN 1 ELSE 0]
    /\ filt = [f \in Filters |-> "none"]
    /\ b_spu_update = [f \in Filters |-> FALSE]

NextSout ==
    /\ fault = "none"
    /\ \/ \E h \in Handles, es \in EsInputs : AddEs(TheSout, h, es) /\ UNCHANGED meterVars
       \/ \E h \in Handles : Del(h) /\ UNCHANGED <<meterVars, add_ret>>
       \/ \E h \in Handles : QueueBlock(h) /\ UNCHANGED add_ret

SpecSout == InitSout /\ [][NextSout]_vars

\* C21: a decoder_queue_audio call with a block of an unknown encoding queues
\* a snapshot of zeros, returns 0 and leaves the streams of the registry as
\* they are; and every call with a block of a known encoding, among them the
\* calls that follow it on the stream, queues the peak of its block.
C21_UnsupportedIsSilence ==
    [][\A h \in Handles :
          nPushed'[h] # nPushed[h] =>
              /\ fault' = "none"
              /\ decoder_queue_audio_ret(block_in'.i_codec) = 0
              /\ fifo'[h] # <<>>
              /\ fifo'[h][Len(fifo'[h])] = [peak |-> f_value', pts |-> nPushed'[h]]
              /\ <<p_streams', i_count_channels', rec', regAlloc'>>
                    = <<p_streams, i_count_channels, rec, regAlloc>>
              /\ IF block_in'.i_codec \in Codecs
                 THEN f_value' = PeakOf(block_in'.i_codec, block_in'.samples)
                 ELSE f_value' = 0]_vars

\* C21 happens: a block of an unknown encoding was queued as silence on a
\* stream, and the block of a known encoding that followed was queued with
\* its peak.
C21_Witness ==
    \E h \in Handles :
        /\ Len(fifo[h]) = 2
        /\ fifo[h][1].peak = 0
        /\ fifo[h][2].peak > 0
        /\ block_in.i_codec \in Codecs
        /\ rec[h].state = "live"

\* C29: an Add call registers its stream when it is an audio stream whose
\* decoder was found; for any other stream it returns NULL and leaves the
\* streams and the channel count of the registry as they are.
C29_AddAudioOnly ==
    [][add_ret' # add_ret =>
          IF add_ret'.i_cat = "AUDIO_ES" /\ add_ret'.decoder
          THEN /\ add_ret'.id # NULL
               /\ rec[add_ret'.id].state = "none"
               /\ rec'[add_ret'.id].state = "live"
               /\ rec'[add_ret'.id].i_stream_id = add_ret'.i_id
               /\ Len(p_streams'[TheSout]) = Len(p_streams[TheSout]) + 1
               /\ \E i \in 1 .. Len(p_streams'[TheSout]) :
                     p_streams'[TheSout][i] = add_ret'.id
               /\ i_count_channels'[TheSout]
                     = i_count_channels[TheSout] + add_ret'.i_channels
          ELSE /\ add_ret'.id = NULL
               /\ p_streams' = p_streams
               /\ i_count_channels' = i_count_channels
               /\ rec' = rec /\ fifo' = fifo]_vars

\* C29 happens: Add has refused an audio stream for which no decoder was
\* found, while the registry holds a stream.
C29_Witness ==
    /\ add_ret.i_cat = "AUDIO_ES" /\ ~add_ret.decoder
    /\ add_ret.id = NULL
    /\ Len(p_streams[TheSout]) = 1
    /\ i_count_channels[TheSout] = rec[p_streams[TheSout][1]].i_nb_channels

====
